---- MODULE Spec2Model ----
(***************************************************************************)
(* Model of the HTTP MCP bridge of xcode-mcp-bridge: startMcpBridge in     *)
(* src/src/xcode-mcp.ts (the `bridge` command) and its second variant in   *)
(* src/xcode-types.ts (the `mcp` command, which persists its endpoint).    *)
(* The two variants share the request handler and differ in the connect    *)
(* error handling, the transport close handler and the cleanup loop.       *)
(***************************************************************************)
EXTENDS Integers, Sequences, FiniteSets, TLC

\* ------------------------------------------------------------------ bounds
\* number of initialization handshakes (transport/server pairs) in one run
MaxSessions == 2
\* number of POST requests whose body is being read at the same time
MaxInflight == 1
\* number of backend calls that are pending at the same time
MaxCalls == 2
\* number of mentions of a tab identifier in a windows listing
MaxMentions == 3
\* length of a test specifier, in characters
MaxLen == 6
\* number of items in the payload of a listing
MaxItems == 3
\* number of entries of the outermost object or array of a preview payload
MaxEntries == 2
\* number of entries of the objects and arrays inside it
MaxNested == 1
\* number of frames the call stack of the engine has room for
MaxStack == 9

\* ------------------------------------------------------- program constants
MinPort == 1
MaxPort == 65535
BadRequest == 400
NotFound == 404
MethodNotAllowed == 405
InternalError == 500
MissingSessionCode == -32000
InternalErrorCode == -32603

\* --------------------------------------------------------------- universes
Variants == {"xcode-mcp", "xcode-types"}
Signals == {"SIGINT", "SIGTERM"}
\* values of the mcp-session-id header: absent, present but empty, or an id
Absent == -1
Empty == 0
Ids == 1..MaxSessions
Headers == {Absent, Empty} \cup Ids
\* transport/server objects are numbered in order of creation
Objs == 1..MaxSessions
NoObj == 0

VARIABLES
    variant,            \* which source file's startMcpBridge runs
    port,               \* options.port, a JavaScript number
    pc,                 \* position of startMcpBridge
    diagnostic,         \* the error startMcpBridge threw ("" = none)
    upstream,           \* the backend Client
    upstreamTransport,  \* the StdioClientTransport (the subprocess channel)
    connectAttempts,    \* calls of upstream.connect
    upstreamErrors,     \* whether upstream.onerror has fired
    listener,           \* the http.Server
    sessions,           \* the Map sessionId -> {server, transport}
    transports,         \* StreamableHTTPServerTransport objects
    servers,            \* per-session Server objects
    issued,             \* ids returned by randomUUID so far, in order
    removed,            \* ids that were deleted from the Map
    inflight,           \* number of POST requests awaiting parseJsonBody
    last,               \* the request answered in the last step and its
                        \* response (NoResponse if the step answered none)
    cleanups,           \* per signal: position of its cleanup run, and the
                        \* transports that were registered at the signal
    log,                \* order in which cleanup's steps completed
    exited,             \* process.exit(0) was called
    failures,           \* the servers of the entries whose close rejected
                        \* during cleanup
    calls,              \* the requests of sessions that await the backend
    arg,                \* the arguments a helper function is called with
    out                 \* what the call of the helper returned or threw

vars == <<variant, port, pc, diagnostic, upstream, upstreamTransport,
          connectAttempts, upstreamErrors, listener, sessions, transports,
          servers, issued, removed, inflight, last, cleanups, log, exited,
          failures, calls, arg, out>>

\* ------------------------------------------------------- JavaScript numbers
\* A number is NaN or a decimal with one fractional digit, kept in tenths.
NaN == [nan |-> TRUE, tenths |-> 0]
Num(t) == [nan |-> FALSE, tenths |-> t]
Int10(i) == Num(10 * i)

\* Number(options.port): the CLI passes the --port string through Number()
PortArgs ==
    {"0", "-1", "65536", "abc", "1.5", "", "65535.5", "0.5",
     "1", "2", "80", "8080", "49321", "65534", "65535"}
NumberOf(s) ==
    CASE s = "0" -> Int10(0)
      [] s = "-1" -> Int10(-1)
      [] s = "65536" -> Int10(65536)
      [] s = "1.5" -> Num(15)
      [] s = "0.5" -> Num(5)
      [] s = "65535.5" -> Num(655355)
      [] s = "" -> Int10(0)
      [] s = "1" -> Int10(1)
      [] s = "2" -> Int10(2)
      [] s = "80" -> Int10(80)
      [] s = "8080" -> Int10(8080)
      [] s = "49321" -> Int10(49321)
      [] s = "65534" -> Int10(65534)
      [] s = "65535" -> Int10(65535)
      [] OTHER -> NaN

\* the default of --port: '49321' for `bridge`, '8080' for `mcp`
DefaultPort(v) == IF v = "xcode-mcp" THEN "49321" ELSE "8080"

NumberIsInteger(n) == ~n.nan /\ n.tenths % 10 = 0
\* comparisons with NaN are false
LessThan(n, i) == ~n.nan /\ n.tenths < 10 * i
GreaterThan(n, i) == ~n.nan /\ n.tenths > 10 * i

PortRejectedLoose(n) == LessThan(n, MinPort) \/ GreaterThan(n, MaxPort)
PortRejected(n) ==
    ~NumberIsInteger(n) \/ LessThan(n, MinPort) \/ GreaterThan(n, MaxPort)

\* ----------------------------------------------------------- backend calls
\* the requests a session's client sends to its per-session server, and the
\* parameters they carry (none, a cursor or a tool with its arguments)
ToolMethods == {"tools/list", "tools/call"}
NoParams == "undefined"
Params == {NoParams, "params"}
\* what the backend answers
Results == {"result", "other result"}
CallIds == 1..MaxCalls
NoCall ==
    [state |-> "free", session |-> NoObj,
     request |-> [method |-> "", params |-> NoParams], sent |-> <<>>]

\* the handlers that createSessionServer registers: the calls each of them
\* makes on the shared Client, in order
ListToolsHandlerNoParams(request) ==
    <<[method |-> "tools/list", params |-> NoParams]>>
ListToolsHandler(request) ==
    <<[method |-> "tools/list", params |-> request.params]>>
CallToolHandler(request) ==
    <<[method |-> "tools/call", params |-> request.params]>>
\* the Server dispatches a request to the handler of its schema
RequestHandler(request) ==
    IF request.method = "tools/list" THEN ListToolsHandler(request)
                                     ELSE CallToolHandler(request)

\* `return await upstream.listTools(...)`: the handler returns what the
\* Client resolved with
ReturnAwait(result) == result

\* a call of the Client rejects: the handler rejects with it and the request
\* it serves is answered with an error; the other calls stay pending
RejectAll(cs, id) == [c \in DOMAIN cs |-> NoCall]
Reject(cs, id) == [cs EXCEPT ![id] = NoCall]

\* ---------------------------------------------------------------- requests
EndpointPath == "/mcp"
Paths == {"/health", EndpointPath, "/other"}
Methods == {"POST", "GET", "DELETE", "PUT"}
\* raw POST bodies: an initialize request, another JSON-RPC request,
\* text that is not JSON, and no body at all
Bodies == {"initialize", "tools/list", "malformed", ""}
NoBody == "-"

\* parseJsonBody: undefined for an empty body, the parsed value for JSON,
\* and a thrown SyntaxError for anything else
parseJsonBody(raw) ==
    CASE raw = "" -> [threw |-> FALSE, value |-> "undefined"]
      [] raw = "malformed" -> [threw |-> TRUE, value |-> "undefined"]
      [] OTHER -> [threw |-> FALSE, value |-> raw]

isInitializeRequest(body) == body = "initialize"

\* `sessionId &&`: undefined and '' are falsy
Truthy(header) == header # Absent /\ header # Empty

\* the endpoint URL http://host:port/path; the host is not modelled
EndpointUrl(n) == <<"http", n.tenths \div 10, EndpointPath>>
NoUrl == <<>>

\* kind is what was written: "health" ({ok: true, endpoint}), "envelope" (a
\* JSON-RPC error envelope), "text" (a plain text body), "transport" (the
\* transport wrote the response); responses counts the responses written
\* for the request, threw tells whether its handling threw, and headersSent
\* whether a response had been started when the catch block ran. A step
\* that settles a backend call has kind "result" or "error" and tells the
\* call, what the backend answered and what the session was returned
NoResponse ==
    [method |-> "", path |-> "", header |-> Absent, body |-> NoBody,
     status |-> 0, kind |-> "", code |-> 0, ok |-> FALSE, endpoint |-> NoUrl,
     to |-> NoObj, created |-> NoObj, active |-> FALSE, closed |-> FALSE,
     changed |-> FALSE, errored |-> FALSE, responses |-> 0, threw |-> FALSE,
     headersSent |-> FALSE, call |-> NoCall, result |-> "",
     returned |-> ""]

\* request (m, p, h, b) before it is answered, with the registry status of
\* its header at the moment of routing; `changed` tells whether handling
\* the request changed the Map, `errored` whether upstream.onerror had fired
\* when /health was answered
Req(m, p, h, b) ==
    [NoResponse EXCEPT !.method = m, !.path = p, !.header = h, !.body = b,
                       !.active = h \in DOMAIN sessions,
                       !.closed = h \in removed]

PlainEnveloped(r, status) ==
    [r EXCEPT !.status = status, !.kind = "envelope",
              !.code = MissingSessionCode, !.responses = @ + 1]
Plain(r, status) ==
    [r EXCEPT !.status = status, !.kind = "text", !.responses = @ + 1]
Envelope(r, status, code) ==
    [r EXCEPT !.status = status, !.kind = "envelope", !.code = code,
              !.responses = @ + 1]

\* catch (error): the 500 envelope is written only `if (!res.headersSent)`
CatchAlwaysWriting(r) ==
    [Envelope(r, InternalError, InternalErrorCode)
        EXCEPT !.threw = TRUE, !.headersSent = r.responses > 0]
Catch(r) ==
    IF r.responses = 0
      THEN [Envelope(r, InternalError, InternalErrorCode)
              EXCEPT !.threw = TRUE]
      ELSE [r EXCEPT !.threw = TRUE, !.headersSent = TRUE]

\* ------------------------------------------------------------------ state
NewTransport == [state |-> "none", sessionId |-> Absent]

\* the state when startMcpBridge is entered with --port given as `args`
Start(args) ==
    /\ variant \in Variants
    /\ port \in {NumberOf(a) : a \in args}
    /\ pc = "start"
    /\ diagnostic = ""
    /\ upstream = "new"
    /\ upstreamTransport = "new"
    /\ connectAttempts = 0
    /\ upstreamErrors = FALSE
    /\ listener = "unbound"
    /\ sessions = <<>>
    /\ transports = [o \in Objs |-> NewTransport]
    /\ servers = [o \in Objs |-> "none"]
    /\ issued = <<>>
    /\ removed = {}
    /\ inflight = 0
    /\ last = NoResponse
    /\ cleanups = [s \in Signals |->
                     [pc |-> "armed", cursor |-> NoObj, active |-> {}]]
    /\ log = <<>>
    /\ exited = FALSE
    /\ failures = {}
    /\ calls = [c \in CallIds |-> NoCall]

\* no helper function is being called
NoArg == [fn |-> ""]
NoOut == [done |-> FALSE]
NoHelper == arg = NoArg /\ out = NoOut

\* the bridge started with its default port
Init == NoHelper /\ \E v \in Variants : Start({DefaultPort(v)}) /\ variant = v

\* the bridge started with any --port argument
InitAnyPort == NoHelper /\ Start(PortArgs)

\* the bridge as constructed, while a helper of the command line is called
bridge == <<variant, port, pc, diagnostic, upstream, upstreamTransport,
            connectAttempts, upstreamErrors, listener, sessions, transports,
            servers, issued, removed, inflight, last, cleanups, log, exited,
            failures, calls>>
BridgeIdle == Start({DefaultPort("xcode-mcp")}) /\ variant = "xcode-mcp"
Returned(value) == [done |-> TRUE, threw |-> FALSE, value |-> value]
Thrown(message) == [done |-> TRUE, threw |-> TRUE, value |-> message]

\* ---------------------------------------------------------------- startup
\* startMcpBridge, the port check that precedes everything else
ValidatePort ==
    /\ pc = "start"
    /\ IF PortRejected(port)
         THEN pc' = "failed" /\ diagnostic' = "Invalid port"
         ELSE pc' = "connect" /\ diagnostic' = diagnostic
    /\ UNCHANGED <<variant, port, upstream, upstreamTransport,
                   connectAttempts, upstreamErrors, listener, sessions,
                   transports, servers, issued, removed, inflight, last,
                   cleanups, log, exited, failures, calls, arg, out>>

\* await upstream.connect(upstreamTransport) resolves; the variant that
\* persists its endpoint then writes the config file, which may throw
ConnectOk ==
    /\ pc = "connect"
    /\ connectAttempts' = connectAttempts + 1
    /\ upstream' = "connected"
    /\ upstreamTransport' = "started"
    /\ \/ pc' = "listen" /\ diagnostic' = diagnostic
       \/ /\ variant = "xcode-types"
          /\ pc' = "failed"
          /\ diagnostic' = "writeConfig failed"
    /\ UNCHANGED <<variant, port, upstreamErrors, listener, sessions,
                   transports, servers, issued, removed, inflight, last,
                   cleanups, log, exited, failures, calls, arg, out>>

\* the diagnostic thrown when upstream.connect rejects: xcode-mcp.ts wraps
\* the error in the checklist, xcode-types.ts lets the raw error through
ConnectDiagnostic(v) ==
    IF v = "xcode-mcp" THEN "Unable to connect: checklist"
                       ELSE "raw connect error"

\* await upstream.connect(upstreamTransport) rejects
ConnectFail ==
    /\ pc = "connect"
    /\ connectAttempts' = connectAttempts + 1
    /\ IF variant = "xcode-mcp"
         THEN upstream' = "closed" /\ upstreamTransport' = "closed"
         ELSE upstream' = "new" /\ upstreamTransport' = "failed"
    /\ pc' = "failed"
    /\ diagnostic' = ConnectDiagnostic(variant)
    /\ UNCHANGED <<variant, port, upstreamErrors, listener, sessions,
                   transports, servers, issued, removed, inflight, last,
                   cleanups, log, exited, failures, calls, arg, out>>

\* server.listen(...) calls back, or the server emits 'error'
Listen ==
    /\ pc = "listen"
    /\ \/ listener' = "bound" /\ pc' = "serving" /\ diagnostic' = diagnostic
       \/ listener' = listener /\ pc' = "failed" /\ diagnostic' = "listen error"
    /\ UNCHANGED <<variant, port, upstream, upstreamTransport,
                   connectAttempts, upstreamErrors, sessions, transports,
                   servers, issued, removed, inflight, last, cleanups, log,
                   exited, failures, calls, arg, out>>

\* upstream.onerror: an asynchronous channel error is logged, nothing else
UpstreamErrorClosing ==
    /\ upstream = "connected"
    /\ ~exited
    /\ ~upstreamErrors
    /\ upstreamErrors' = TRUE
    /\ upstream' = "closed"
    /\ last' = NoResponse
    /\ UNCHANGED <<variant, port, pc, diagnostic, upstreamTransport,
                   connectAttempts, listener, sessions, transports, servers,
                   issued, removed, inflight, cleanups, log, exited, failures,
                   calls, arg, out>>
UpstreamError ==
    /\ upstream = "connected"
    /\ ~exited
    /\ ~upstreamErrors
    /\ upstreamErrors' = TRUE
    /\ last' = NoResponse
    /\ UNCHANGED <<variant, port, pc, diagnostic, upstream, upstreamTransport,
                   connectAttempts, listener, sessions, transports, servers,
                   issued, removed, inflight, cleanups, log, exited, failures,
                   calls, arg, out>>

\* ------------------------------------------------- the Map and its objects
Range(f) == {f[x] : x \in DOMAIN f}
MapSet(m, k, v) == [x \in DOMAIN m \cup {k} |-> IF x = k THEN v ELSE m[x]]
MapDelete(m, k) == [x \in DOMAIN m \ {k} |-> m[x]]

\* sessionIdGenerator: () => randomUUID(): an id no earlier call returned
\* the ids are opaque, so they are named by their order of issue
randomUUIDReusing(iss) == {1}
randomUUID(iss) == {Len(iss) + 1}

\* the part of the state that a transport close touches
Heap ==
    [sessions |-> sessions, transports |-> transports, servers |-> servers,
     removed |-> removed]

\* onsessioninitialized: sessions.set(newSessionId, {server, transport})
onsessioninitializedSwapped(hp, id, s, t) ==
    [hp EXCEPT !.sessions =
        MapSet(@, id, [server |-> s, transport |-> (s % MaxSessions) + 1])]
onsessioninitialized(hp, id, s, t) ==
    [hp EXCEPT !.sessions = MapSet(@, id, [server |-> s, transport |-> t])]

\* Protocol._onclose, which Server.connect chains behind the handler that
\* was already set on transport.onclose: the server loses its transport
ProtocolOnClose(hp, s) == [hp EXCEPT !.servers[s] = "closed"]

\* transport.onclose as the bridge sets it. xcode-mcp.ts deletes the entry;
\* xcode-types.ts closes the entry's server and then deletes the entry
oncloseKeeping(v, hp, t) == hp
oncloseClearing(v, hp, t) ==
    [hp EXCEPT !.sessions = <<>>, !.removed = @ \cup DOMAIN hp.sessions]
onclose(v, hp, t) ==
    LET id == hp.transports[t].sessionId IN
    IF id = Absent THEN hp
    ELSE IF v = "xcode-mcp"
      THEN [hp EXCEPT !.sessions = MapDelete(@, id),
                      !.removed = @ \cup ({id} \cap DOMAIN hp.sessions)]
      ELSE IF id \in DOMAIN hp.sessions
        THEN [hp EXCEPT !.servers[hp.sessions[id].server] = "closed",
                        !.sessions = MapDelete(@, id),
                        !.removed = @ \cup {id}]
        ELSE hp

\* transport.close(): the transport closes its streams and fires onclose,
\* that is the bridge's handler and then the protocol's (server t is the one
\* connected to transport t)
transportClose(v, hp, t) ==
    ProtocolOnClose(
        onclose(v, [hp EXCEPT !.transports[t].state = "closed"], t), t)

\* Server.close(): closes the transport the server is connected to, if any
serverClose(v, hp, s) ==
    IF hp.servers[s] = "connected" THEN transportClose(v, hp, s) ELSE hp

\* createSessionServer + new StreamableHTTPServerTransport + connect; the
\* pair is not put in the Map here
CreatePairEager(hp, o) ==
    [hp EXCEPT !.transports[o] = [state |-> "open", sessionId |-> Absent],
               !.servers[o] = "connected",
               !.sessions = MapSet(@, Absent, [server |-> o, transport |-> o])]
CreatePair(hp, o) ==
    [hp EXCEPT !.transports[o] = [state |-> "open", sessionId |-> Absent],
               !.servers[o] = "connected"]

Unused == {o \in Objs : transports[o].state = "none"}
NextObj == CHOOSE o \in Unused : \A x \in Unused : o <= x

\* transport.handleRequest of a transport that has its session id: the
\* status it answers with
TransportStatus(m, body) ==
    CASE m = "POST" /\ body = "tools/list" -> 200
      [] m = "POST" -> BadRequest
      [] OTHER -> 200

Forwarded(r, t, status) ==
    [r EXCEPT !.status = status, !.kind = "transport", !.to = t,
              !.responses = @ + 1]

Store(hp) ==
    /\ sessions' = hp.sessions
    /\ transports' = hp.transports
    /\ servers' = hp.servers
    /\ removed' = hp.removed

\* the handler has answered with `resp` and left the heap `hp`
Done(resp, hp) ==
    /\ last' = [resp EXCEPT !.changed = hp.sessions # sessions]
    /\ Store(hp)

\* `await transport.handleRequest(...)` of transport t: it resolves, having
\* written `resp` and left the heap `after`; or it rejects before anything
\* was written, the heap as `before`; or it rejects after it had started
\* the response
Handled(r, t, resp, before, after) ==
    \/ Done(resp, after)
    \/ Done(Catch([r EXCEPT !.to = t, !.created = resp.created]), before)
    \/ Done(Catch(resp), after)

\* ------------------------------------------------------- the request handler
\* the listener hands a request to the handler whatever the state of the
\* backend calls
AcceptingWhenIdle ==
    /\ listener = "bound"
    /\ ~exited
    /\ \A c \in CallIds : calls[c].state = "free"
Accepting == listener = "bound" /\ ~exited

\* sessions.get(sessionId)!.transport
RouteTargetOther(reg, id) == (reg[id].transport % MaxSessions) + 1
RouteTarget(reg, id) == reg[id].transport

\* `sessionId && sessions.has(sessionId)`
HasSessionAny(reg, h) == Truthy(h)
HasSession(reg, h) == Truthy(h) /\ h \in DOMAIN reg

\* `!sessionId && isInitializeRequest(body)`
StartsSessionAnyHeader(h, body) == isInitializeRequest(body)
StartsSession(h, body) == ~Truthy(h) /\ isInitializeRequest(body)

\* the response of /health: status 200 by default, {ok: true, endpoint}
HealthDown(r) ==
    [r EXCEPT !.status = IF upstreamErrors THEN InternalError ELSE 200,
              !.kind = "health", !.ok = ~upstreamErrors,
              !.endpoint = EndpointUrl(port), !.errored = upstreamErrors,
              !.responses = @ + 1]
Health(r) ==
    [r EXCEPT !.status = 200, !.kind = "health", !.ok = TRUE,
              !.endpoint = EndpointUrl(port), !.errored = upstreamErrors,
              !.responses = @ + 1]

Frame ==
    UNCHANGED <<variant, port, pc, diagnostic, upstream, upstreamTransport,
                connectAttempts, upstreamErrors, listener, cleanups, log,
                exited, failures, calls, arg, out>>

\* `method === 'GET' || method === 'DELETE'`
IsStreamMethodAny(m) == m # "POST"
IsStreamMethod(m) == m = "GET" \/ m = "DELETE"

\* a request the handler answers without reading a body: any request off
\* the endpoint path, and GET, DELETE and other methods on it
Request(m, p, h) ==
    /\ Accepting
    /\ ~(m = "POST" /\ p = EndpointPath)
    /\ p # EndpointPath => h = Absent
    /\ LET r == Req(m, p, h, NoBody) IN
       IF p = "/health"
         THEN Done(Health(r), Heap)
       ELSE IF p # EndpointPath
         THEN Done(Plain(r, NotFound), Heap)
       ELSE IF IsStreamMethod(m)
         THEN IF ~HasSession(sessions, h)
                THEN Done(Plain(r, BadRequest), Heap)
                ELSE LET t == RouteTarget(sessions, h) IN
                     Handled(r, t,
                             Forwarded(r, t, TransportStatus(m, NoBody)),
                             Heap,
                             IF m = "DELETE"
                               THEN transportClose(variant, Heap, t)
                               ELSE Heap)
       ELSE Done(Plain(r, MethodNotAllowed), Heap)
    /\ UNCHANGED <<issued, inflight>>
    /\ Frame

\* a POST on the endpoint path arrives; the handler awaits parseJsonBody
PostArrive ==
    /\ Accepting
    /\ inflight < MaxInflight
    /\ inflight' = inflight + 1
    /\ last' = NoResponse
    /\ UNCHANGED <<sessions, transports, servers, removed, issued>>
    /\ Frame

\* the POST branch, once parseJsonBody has settled. Nothing reads the header
\* and the body of a request while its body is being read, so they are drawn
\* here, when the handler resumes, and not at arrival
PostHandle(h, b) ==
    /\ inflight > 0
    /\ ~exited
    /\ (~HasSession(sessions, h) /\ StartsSession(h, parseJsonBody(b).value))
          => Unused # {}
    /\ inflight' = inflight - 1
    /\ LET r == Req("POST", EndpointPath, h, b)
           parsed == parseJsonBody(b)
       IN
       IF parsed.threw
         THEN /\ Done(Catch(r), Heap)
              /\ issued' = issued
       ELSE IF HasSession(sessions, h)
         THEN LET t == RouteTarget(sessions, h) IN
              /\ Handled(r, t,
                         Forwarded(r, t,
                                   TransportStatus("POST", parsed.value)),
                         Heap, Heap)
              /\ issued' = issued
       ELSE IF StartsSession(h, parsed.value)
         THEN LET o == NextObj
                  made == CreatePair(Heap, o)
              IN
              \* the transport accepts the handshake, takes an id and
              \* confirms it, or rejects the request before taking one
              \/ \E id \in randomUUID(issued) :
                    /\ issued' = Append(issued, id)
                    /\ LET resp == [Forwarded(r, o, 200) EXCEPT !.created = o]
                           hp == onsessioninitialized(
                                   [made EXCEPT !.transports[o].sessionId = id],
                                   id, o, o)
                       IN Done(resp, hp) \/ Done(Catch(resp), hp)
              \/ /\ issued' = issued
                 /\ Handled(r, o,
                            [Forwarded(r, o, 406) EXCEPT !.created = o],
                            made, made)
       ELSE /\ Done(Envelope(r, BadRequest, MissingSessionCode), Heap)
            /\ issued' = issued
    /\ Frame

\* a transport closes for a reason other than DELETE or shutdown
TransportClose(t) ==
    /\ ~exited
    /\ transports[t].state = "open"
    /\ transports[t].sessionId # Absent
    /\ Store(transportClose(variant, Heap, t))
    /\ last' = NoResponse
    /\ UNCHANGED <<issued, inflight>>
    /\ Frame

\* ---------------------------------------------------------------- shutdown
\* the steps of cleanup in the order the code takes them
Record(lg, e) == IF e \in Range(lg) THEN lg ELSE Append(lg, e)

\* entries of the Map the iterator has not visited: a Map iterates in
\* insertion order, which is the order of creation of the servers
Pending(reg, cursor) == {id \in DOMAIN reg : reg[id].server > cursor}
NextEntry(reg, cursor) ==
    CHOOSE id \in Pending(reg, cursor) :
        \A x \in Pending(reg, cursor) : reg[id].server <= reg[x].server

\* the transports registered in the Map: the sessions that are Active
Registered(reg) == {reg[id].transport : id \in DOMAIN reg}

\* one iteration of the loop of cleanup: xcode-mcp.ts closes the entry's
\* server, xcode-types.ts closes its transport and then its server
CloseEntrySkipping(v, hp, e) == hp
CloseEntry(v, hp, e) ==
    IF v = "xcode-mcp"
      THEN serverClose(v, hp, e.server)
      ELSE serverClose(v, transportClose(v, hp, e.transport), e.server)

\* cleanup from its current iterator position up to its next await: either
\* the next entry is closed, or the loop is over, the Map is cleared and
\* server.close() makes the listener stop accepting
CleanupRun(sig, cursor, act) ==
    IF Pending(sessions, cursor) # {}
      THEN LET id == NextEntry(sessions, cursor) IN
           /\ Store(CloseEntry(variant, Heap, sessions[id]))
           /\ cleanups' = [cleanups EXCEPT ![sig].pc = "loop",
                                           ![sig].cursor = sessions[id].server,
                                           ![sig].active = act]
           /\ UNCHANGED <<listener, log>>
      ELSE /\ Store([Heap EXCEPT !.sessions = <<>>,
                                 !.removed = @ \cup DOMAIN sessions])
           /\ listener' = IF listener = "bound" THEN "closing" ELSE listener
           /\ cleanups' = [cleanups EXCEPT ![sig].pc = "listener",
                                           ![sig].active = act]
           /\ log' = Record(log, "clear")

CleanupFrame ==
    /\ last' = NoResponse
    /\ UNCHANGED <<variant, port, pc, diagnostic, connectAttempts,
                   upstreamErrors, issued, inflight, failures, calls, arg, out>>

\* process.once(signal, ...): the handler starts cleanup
Signal(sig) ==
    /\ pc = "serving"
    /\ ~exited
    /\ cleanups[sig].pc = "armed"
    /\ CleanupRun(sig, NoObj, Registered(sessions))
    /\ UNCHANGED <<upstream, upstreamTransport, exited>>
    /\ CleanupFrame

\* `await sessionServer.close()` resumes
CleanupLoop(sig) ==
    /\ ~exited
    /\ cleanups[sig].pc = "loop"
    /\ CleanupRun(sig, cleanups[sig].cursor, cleanups[sig].active)
    /\ UNCHANGED <<upstream, upstreamTransport, exited>>
    /\ CleanupFrame

\* server.close calls back once no connection is left; the callback
\* ignores the error it is passed when the listener was not running
CleanupListener(sig) ==
    /\ ~exited
    /\ cleanups[sig].pc = "listener"
    /\ inflight = 0
    /\ listener' = "closed"
    /\ cleanups' = [cleanups EXCEPT ![sig].pc = "upstream"]
    /\ log' = Record(log, "listener")
    /\ UNCHANGED <<sessions, transports, servers, removed, upstream,
                   upstreamTransport, exited>>
    /\ CleanupFrame

\* await upstream.close()
CleanupUpstream(sig) ==
    /\ ~exited
    /\ cleanups[sig].pc = "upstream"
    /\ upstream' = "closed"
    /\ cleanups' = [cleanups EXCEPT ![sig].pc = "upstreamTransport"]
    /\ log' = Record(log, "upstream")
    /\ UNCHANGED <<sessions, transports, servers, removed, listener,
                   upstreamTransport, exited>>
    /\ CleanupFrame

\* await upstreamTransport.close()
CleanupUpstreamTransport(sig) ==
    /\ ~exited
    /\ cleanups[sig].pc = "upstreamTransport"
    /\ upstreamTransport' = "closed"
    /\ cleanups' = [cleanups EXCEPT ![sig].pc = "exit"]
    /\ log' = Record(log, "upstreamTransport")
    /\ UNCHANGED <<sessions, transports, servers, removed, listener,
                   upstream, exited>>
    /\ CleanupFrame

\* .finally(() => process.exit(0))
Exit(sig) ==
    /\ ~exited
    /\ cleanups[sig].pc = "exit"
    /\ exited' = TRUE
    /\ cleanups' = [cleanups EXCEPT ![sig].pc = "done"]
    /\ log' = Record(log, "exit")
    /\ UNCHANGED <<sessions, transports, servers, removed, listener,
                   upstream, upstreamTransport>>
    /\ CleanupFrame

\* ------------------------------------------------- closes that reject
\* `.catch(() => undefined)` behind a close: when the close rejects, cleanup
\* goes on with the statement that follows it
AfterRejectionAborting(step) == "exit"
AfterRejection(step) ==
    CASE step = "loop" -> "loop"
      [] step = "listener" -> "upstream"
      [] step = "upstream" -> "upstreamTransport"
      [] step = "upstreamTransport" -> "exit"

\* what a close that rejects can leave behind: it rejected before it closed
\* anything, or after it had closed what it closes
CloseEntryRejected(v, hp, e) == {hp, CloseEntry(v, hp, e)}

\* the loop of cleanup when the close of the next entry rejects
CleanupRunRejected(sig, cursor, act) ==
    /\ Pending(sessions, cursor) # {}
    /\ LET e == sessions[NextEntry(sessions, cursor)] IN
       /\ \E hp \in CloseEntryRejected(variant, Heap, e) : Store(hp)
       /\ cleanups' = [cleanups EXCEPT ![sig].pc = AfterRejection("loop"),
                                       ![sig].cursor = e.server,
                                       ![sig].active = act]
       /\ failures' = failures \cup {e.server}
    /\ UNCHANGED <<listener, log, upstream, upstreamTransport, exited>>

RejectedFrame ==
    /\ last' = NoResponse
    /\ UNCHANGED <<variant, port, pc, diagnostic, connectAttempts,
                   upstreamErrors, issued, inflight, calls, arg, out>>

\* the signal handler starts cleanup and the first close rejects
SignalRejected(sig) ==
    /\ pc = "serving"
    /\ ~exited
    /\ cleanups[sig].pc = "armed"
    /\ CleanupRunRejected(sig, NoObj, Registered(sessions))
    /\ RejectedFrame

\* `await sessionServer.close()` resumes and the next close rejects
CleanupLoopRejected(sig) ==
    /\ ~exited
    /\ cleanups[sig].pc = "loop"
    /\ CleanupRunRejected(sig, cleanups[sig].cursor, cleanups[sig].active)
    /\ RejectedFrame

\* upstream.close() rejects
CleanupUpstreamRejected(sig) ==
    /\ ~exited
    /\ cleanups[sig].pc = "upstream"
    /\ upstream' \in {upstream, "closed"}
    /\ cleanups' = [cleanups EXCEPT ![sig].pc = AfterRejection("upstream")]
    /\ log' = Record(log, "upstream")
    /\ UNCHANGED <<sessions, transports, servers, removed, listener,
                   upstreamTransport, exited>>
    /\ CleanupFrame

\* upstreamTransport.close() rejects
CleanupUpstreamTransportRejected(sig) ==
    /\ ~exited
    /\ cleanups[sig].pc = "upstreamTransport"
    /\ upstreamTransport' \in {upstreamTransport, "closed"}
    /\ cleanups' =
          [cleanups EXCEPT ![sig].pc = AfterRejection("upstreamTransport")]
    /\ log' = Record(log, "upstreamTransport")
    /\ UNCHANGED <<sessions, transports, servers, removed, listener,
                   upstream, exited>>
    /\ CleanupFrame

\* ------------------------------------------------- the per-session servers
FreeCalls == {c \in CallIds : calls[c].state = "free"}
NextCall == CHOOSE c \in FreeCalls : \A x \in FreeCalls : c <= x

BackendFrame ==
    UNCHANGED <<variant, port, pc, diagnostic, upstream, upstreamTransport,
                connectAttempts, upstreamErrors, listener, sessions,
                transports, servers, issued, removed, inflight, cleanups,
                log, exited, failures, arg, out>>

\* the server of session t is handed a tools/list or tools/call request by
\* its transport, and the handler of the request calls the Client
SessionRequest(t, m, p) ==
    /\ ~exited
    /\ upstream = "connected"
    /\ transports[t].state = "open"
    /\ transports[t].sessionId \in DOMAIN sessions
    /\ servers[t] = "connected"
    /\ FreeCalls # {}
    /\ LET request == [method |-> m, params |-> p] IN
       calls' = [calls EXCEPT ![NextCall] =
                   [state |-> "pending", session |-> t, request |-> request,
                    sent |-> RequestHandler(request)]]
    /\ last' = NoResponse
    /\ BackendFrame

\* the server that still has its transport: a response can be sent on it
RecipientOther(s) == (s % MaxSessions) + 1
Recipient(s) == IF servers[s] = "connected" THEN s ELSE NoObj

\* the backend answers a pending call: the Client resolves and the handler
\* returns to the session
BackendResult(id, res) ==
    /\ ~exited
    /\ calls[id].state = "pending"
    /\ calls' = [calls EXCEPT ![id] = NoCall]
    /\ last' = [NoResponse EXCEPT !.kind = "result",
                                  !.to = Recipient(calls[id].session),
                                  !.call = calls[id],
                                  !.result = res,
                                  !.returned = ReturnAwait(res)]
    /\ BackendFrame

\* a pending call fails: the Client rejects and so does the handler
BackendError(id) ==
    /\ ~exited
    /\ calls[id].state = "pending"
    /\ calls' = Reject(calls, id)
    /\ last' = [NoResponse EXCEPT !.kind = "error",
                                  !.to = Recipient(calls[id].session),
                                  !.call = calls[id]]
    /\ BackendFrame

\* ------------------------------------------------------------ unwrapResult
\* JavaScript values: undefined, null, and values of the other types,
\* falsy and truthy
Undefined == [t |-> "undefined", v |-> ""]
Null == [t |-> "null", v |-> ""]
JsValues ==
    {Undefined, Null,
     [t |-> "number", v |-> "0"], [t |-> "string", v |-> ""],
     [t |-> "boolean", v |-> "false"], [t |-> "string", v |-> "text"],
     [t |-> "object", v |-> "{ok: true}"]}
RawValues == {Undefined, Null, [t |-> "string", v |-> "raw"]}
JsTruthy(x) ==
    /\ x.t \notin {"undefined", "null"}
    /\ x \notin {[t |-> "number", v |-> "0"], [t |-> "string", v |-> ""],
                 [t |-> "boolean", v |-> "false"]}

unwrapResultTruthy(result) ==
    IF JsTruthy(result.structured) THEN result.structured
    ELSE IF JsTruthy(result.json) THEN result.json
    ELSE result.raw
unwrapResult(result) ==
    IF result.structured # Undefined /\ result.structured # Null
      THEN result.structured
    ELSE IF result.json # Null
      THEN result.json
    ELSE result.raw

InitUnwrap ==
    /\ BridgeIdle
    /\ arg \in [fn : {"unwrapResult"}, structured : JsValues, json : JsValues,
                raw : RawValues]
    /\ out = NoOut

CallUnwrapResult ==
    /\ arg.fn = "unwrapResult"
    /\ ~out.done
    /\ out' = Returned(unwrapResult(arg))
    /\ UNCHANGED <<arg, bridge>>

SpecUnwrap == InitUnwrap /\ [][CallUnwrapResult]_vars

\* ---------------------------------------------------- resolveTabIdentifier
\* the two command lines: `xcode-mcp` (part_001) and `xcode`, which keeps a
\* config file with a default tab (part_003)
Clis == {"xcode-mcp", "xcode"}
\* optional strings: undefined, the empty string, or a tab identifier
NoString == "undefined"
StrTruthy(str) == str # NoString /\ str # ""
\* the values under which a listing mentions a tab: an identifier, the
\* same identifier with blanks around it, blanks alone, another identifier
Mentions == {"tabA", " tabA ", " ", "tabB"}
trim(str) ==
    CASE str = " tabA " -> "tabA"
      [] str = " " -> ""
      [] OTHER -> str
BoundedSeq(S, n) == UNION {[1..k -> S] : k \in 0..n}
Listings == BoundedSeq(Mentions, MaxMentions)

\* listTabIdentifiers: the trimmed, non-empty identifiers in the order in
\* which a Set first received them
RECURSIVE listTabIdentifiersAll(_)
listTabIdentifiersAll(listing) ==
    IF listing = <<>> THEN <<>>
    ELSE LET rest == listTabIdentifiersAll(SubSeq(listing, 1, Len(listing) - 1))
             id == trim(listing[Len(listing)])
         IN IF id = "" THEN rest ELSE Append(rest, id)
RECURSIVE listTabIdentifiers(_)
listTabIdentifiers(listing) ==
    IF listing = <<>> THEN <<>>
    ELSE LET rest == listTabIdentifiers(SubSeq(listing, 1, Len(listing) - 1))
             id == trim(listing[Len(listing)])
         IN IF id = "" \/ id \in Range(rest) THEN rest ELSE Append(rest, id)

NoTabFound == "No tab identifier found"
ListWindowsFailed == "XcodeListWindows failed"
Resolved(value, n) ==
    [done |-> TRUE, threw |-> FALSE, value |-> value, calls |-> n]
Failed(message, n) ==
    [done |-> TRUE, threw |-> TRUE, value |-> message, calls |-> n]

\* resolveTabIdentifier once the windows listing is known: `given` tells
\* whether the caller passed windowsResult, so that no call is made
resolveTabIdentifier(a) ==
    IF StrTruthy(a.tabOverride)
      THEN Resolved(a.tabOverride, 0)
    ELSE IF a.cli = "xcode" /\ StrTruthy(a.defaultTabId)
      THEN Resolved(a.defaultTabId, 0)
    ELSE IF a.autoDiscover
      THEN LET n == IF a.given THEN 0 ELSE 1
               discoveredTabIds == listTabIdentifiers(a.listing)
           IN IF Len(discoveredTabIds) = 1
                THEN Resolved(discoveredTabIds[1], n)
                ELSE Failed(NoTabFound, n)
    ELSE Failed(NoTabFound, 0)

\* whether resolveTabIdentifier reaches `await ctx.call('XcodeListWindows')`
CallsBackend(a) ==
    /\ ~StrTruthy(a.tabOverride)
    /\ ~(a.cli = "xcode" /\ StrTruthy(a.defaultTabId))
    /\ a.autoDiscover
    /\ ~a.given

InitResolveTab ==
    /\ BridgeIdle
    /\ arg \in [fn : {"resolveTabIdentifier"}, cli : Clis,
                tabOverride : {NoString, "", "tabC"},
                defaultTabId : {NoString, "", "tabD"},
                autoDiscover : BOOLEAN, given : BOOLEAN, listing : Listings]
    /\ out = NoOut

CallResolveTabIdentifier ==
    /\ arg.fn = "resolveTabIdentifier"
    /\ ~out.done
    /\ out' = resolveTabIdentifier(arg)
    /\ UNCHANGED <<arg, bridge>>

\* ctx.call('XcodeListWindows') rejects and the error propagates
CallResolveTabIdentifierRejected ==
    /\ arg.fn = "resolveTabIdentifier"
    /\ ~out.done
    /\ CallsBackend(arg)
    /\ out' = Failed(ListWindowsFailed, 1)
    /\ UNCHANGED <<arg, bridge>>

NextResolveTab == CallResolveTabIdentifier \/ CallResolveTabIdentifierRejected
SpecResolveTab == InitResolveTab /\ [][NextResolveTab]_vars

\* ------------------------------------------------------ parseTestSpecifier
\* strings are sequences of characters: a blank, the slash, two others
Chars == {" ", "/", "a", "b"}
Strings == BoundedSeq(Chars, MaxLen)

\* String.prototype.trim, indexOf and slice(0, end); indices count from 0
RECURSIVE trimStart(_)
trimStart(str) ==
    IF str # <<>> /\ str[1] = " " THEN trimStart(Tail(str)) ELSE str
RECURSIVE trimEnd(_)
trimEnd(str) ==
    IF str # <<>> /\ str[Len(str)] = " "
      THEN trimEnd(SubSeq(str, 1, Len(str) - 1))
      ELSE str
Trim(str) == trimEnd(trimStart(str))
indexOf(str, c) ==
    IF \E i \in 1..Len(str) : str[i] = c
      THEN (CHOOSE i \in 1..Len(str) :
              str[i] = c /\ \A j \in 1..(i - 1) : str[j] # c) - 1
      ELSE -1
slice(str, end) == SubSeq(str, 1, end)

InvalidTestSpecifier == "Invalid test specifier"
parseTestSpecifierLeadingSlash(input) ==
    LET value == Trim(input)
        slash == indexOf(value, "/")
    IN IF slash < 0
         THEN Thrown(InvalidTestSpecifier)
         ELSE Returned([targetName |-> Trim(slice(value, slash)),
                        testIdentifier |-> value])
parseTestSpecifier(input) ==
    LET value == Trim(input)
        slash == indexOf(value, "/")
        targetName == Trim(slice(value, slash))
    IN IF slash <= 0
         THEN Thrown(InvalidTestSpecifier)
       ELSE IF targetName = <<>>
         THEN Thrown(InvalidTestSpecifier)
       ELSE Returned([targetName |-> targetName, testIdentifier |-> value])

InitTestSpecifier ==
    /\ BridgeIdle
    /\ arg \in [fn : {"parseTestSpecifier"}, input : Strings]
    /\ out = NoOut

CallParseTestSpecifier ==
    /\ arg.fn = "parseTestSpecifier"
    /\ ~out.done
    /\ out' = parseTestSpecifier(arg.input)
    /\ UNCHANGED <<arg, bridge>>

SpecTestSpecifier == InitTestSpecifier /\ [][CallParseTestSpecifier]_vars

\* ------------------------------------------------------------ renderLsTree
\* items of a payload: paths as strings of characters, and a value that is
\* not a string
NotAString == <<"42">>
PathItems ==
    {<<>>, <<"/">>, <<"P">>, <<"B">>,
     <<"P", "/", "a">>, <<"P", "/", "B">>, <<"a", "/", "B">>,
     <<"P", "/", "a", "/", "B">>, <<"/", "P", "/", "B", "/">>,
     <<"P", "/", "/", "a", "/", "P">>}
RootLabels ==
    {<<"/">>, <<"/", "t", "/", "P">>, <<"P", "/">>, <<"a">>}
\* payloads: null, a string, an object without an items array, an object
\* whose items are an array
Payloads ==
    {[t |-> "null", items |-> <<>>], [t |-> "string", items |-> <<>>],
     [t |-> "object", items |-> <<>>]}
    \cup [t : {"items"}, items : BoundedSeq(PathItems \cup {NotAString},
                                            MaxItems)]

\* fullPath.replace(/\/+$/, '')
RECURSIVE stripTrailingSlashes(_)
stripTrailingSlashes(str) ==
    IF str # <<>> /\ str[Len(str)] = "/"
      THEN stripTrailingSlashes(SubSeq(str, 1, Len(str) - 1))
      ELSE str
\* str.split('/'): the parts between the slashes, empty parts included
RECURSIVE split(_)
split(str) ==
    IF \A i \in 1..Len(str) : str[i] # "/"
      THEN <<str>>
      ELSE LET k == indexOf(str, "/") IN
           <<SubSeq(str, 1, k)>> \o split(SubSeq(str, k + 2, Len(str)))
NonEmpty(x) == x # <<>>
IsString(x) == x # NotAString
\* array.filter(Boolean) on strings or on arrays of parts
filterBoolean(array) == SelectSeq(array, NonEmpty)
\* array.filter((item) => typeof item === 'string')
filterStrings(array) == SelectSeq(array, IsString)
\* the path components of an item
Parts(fullPath) == filterBoolean(split(stripTrailingSlashes(fullPath)))
\* path.basename of a path without trailing slashes
basename(str) ==
    LET parts == filterBoolean(split(str)) IN
    IF parts = <<>> THEN <<>> ELSE parts[Len(parts)]

\* a.localeCompare(b, undefined, {sensitivity: 'base'}) < 0: the order of
\* the letters whatever their case
BaseRank(c) ==
    CASE c = "a" -> 1
      [] c = "B" -> 2
      [] c = "P" -> 16
      [] c = "t" -> 20
      [] OTHER -> 0
CodePoint(c) ==
    CASE c = "a" -> 97
      [] c = "B" -> 66
      [] c = "P" -> 80
      [] c = "t" -> 116
      [] OTHER -> 47
BaseRanks(str) == [i \in 1..Len(str) |-> BaseRank(str[i])]
CodePoints(str) == [i \in 1..Len(str) |-> CodePoint(str[i])]
RECURSIVE Before(_, _)
Before(a, b) ==
    IF b = <<>> THEN FALSE
    ELSE IF a = <<>> THEN TRUE
    ELSE IF a[1] # b[1] THEN a[1] < b[1]
    ELSE Before(Tail(a), Tail(b))
localeCompareCodePoint(a, b) == Before(CodePoints(a), CodePoints(b))
localeCompare(a, b) == Before(BaseRanks(a), BaseRanks(b))

\* [...nodes.keys()].sort(...); the names of the universe differ by more
\* than case, so no two of them compare equal
RECURSIVE sort(_)
sort(names) ==
    IF names = {} THEN <<>>
    ELSE LET first == CHOOSE n \in names :
                        \A m \in names \ {n} : localeCompare(n, m)
         IN <<first>> \o sort(names \ {first})

\* the tree is the set of the paths of its nodes; the children of a node
\* are the paths one component longer
Last(q) == q[Len(q)]
ChildNames(nodes, parent) ==
    {Last(n) : n \in {x \in nodes : /\ Len(x) = Len(parent) + 1
                                     /\ SubSeq(x, 1, Len(parent)) = parent}}
PrefixClosure(paths) ==
    UNION {{SubSeq(q, 1, k) : k \in 1..Len(q)} : q \in paths}
\* the pieces of a line: "L-- " is the connector of a last sibling (drawn as
\* an angle), "T-- " that of the others (drawn as a tee); below a last
\* sibling the prefix grows by blanks, below the others by a bar
LastConnector == "L-- "
TeeConnector == "T-- "
Line(prefix, connector, name) ==
    [prefix |-> prefix, connector |-> connector, name |-> name]

\* appendTreeLines: the lines of the nodes below `parent`
RECURSIVE appendTreeLines(_, _, _)
appendTreeLines(nodes, parent, prefix) ==
    LET names == sort(ChildNames(nodes, parent))
        RECURSIVE forEach(_)
        forEach(index) ==
            IF index > Len(names) THEN <<>>
            ELSE LET name == names[index]
                     isLast == index = Len(names)
                     connector ==
                         IF isLast THEN LastConnector ELSE TeeConnector
                     childPrefix ==
                         Append(prefix, IF isLast THEN "    " ELSE "|   ")
                 IN <<Line(prefix, connector, name)>>
                    \o appendTreeLines(nodes, Append(parent, name),
                                       childPrefix)
                    \o forEach(index + 1)
    IN forEach(1)

NullTree == [null |-> TRUE, root |-> <<>>, lines |-> <<>>]
Tree(root, lines) == [null |-> FALSE, root |-> root, lines |-> lines]

renderLsTree(value, rootLabel) ==
    IF value.t # "items" THEN NullTree
    ELSE LET items == filterStrings(value.items) IN
         IF items = <<>> THEN Tree(rootLabel, <<>>)
         ELSE LET rootName == basename(stripTrailingSlashes(rootLabel))
                  parsed ==
                      filterBoolean([i \in 1..Len(items) |-> Parts(items[i])])
                  stripFirst ==
                      /\ rootName # <<>>
                      /\ \A i \in 1..Len(parsed) : parsed[i][1] = rootName
                  kept ==
                      {IF stripFirst THEN Tail(parsed[i]) ELSE parsed[i] :
                          i \in 1..Len(parsed)} \ {<<>>}
                  roots == PrefixClosure(kept)
              IN Tree(rootLabel, appendTreeLines(roots, <<>>, <<>>))

InitLsTree ==
    /\ BridgeIdle
    /\ arg \in [fn : {"renderLsTree"}, value : Payloads,
                rootLabel : RootLabels]
    /\ out = NoOut

CallRenderLsTree ==
    /\ arg.fn = "renderLsTree"
    /\ ~out.done
    /\ out' = Returned(renderLsTree(arg.value, arg.rootLabel))
    /\ UNCHANGED <<arg, bridge>>

SpecLsTree == InitLsTree /\ [][CallRenderLsTree]_vars

\* --------------------------------------------------------- findPreviewPath
\* values of a payload: strings of characters, null, arrays of values and
\* objects, whose entries are in insertion order
Str(chars) == [t |-> "string", v |-> chars]
NullValue == [t |-> "null", v |-> <<>>]
Arr(elements) == [t |-> "array", v |-> elements]
Obj(entries) == [t |-> "object", v |-> entries]
Entry(key, entry) == [key |-> key, entry |-> entry]
NoPath == [t |-> "undefined", v |-> <<>>]
PreviewKeys ==
    {<<"P", "a", "t", "h">>, <<"m", "y", "F", "I", "L", "E">>,
     <<"n", "o", "t", "e">>}
PreviewStrings ==
    {<<"a", ".", "p", "n", "g">>, <<"b", ".", "J", "P", "G">>,
     <<"f", ".", "t", "x", "t">>}
Leaves == {Str(c) : c \in PreviewStrings} \cup {NullValue}
\* the sequences of 1..n entries under different keys
Entries(V, n) ==
    UNION {{e \in [1..k -> [key : PreviewKeys, entry : V]] :
               \A i, j \in 1..k : i # j => e[i].key # e[j].key} :
           k \in 1..n}
Objects(V, n) == {Obj(e) : e \in Entries(V, n)}
Arrays(V, n) == {Arr(e) : e \in BoundedSeq(V, n)}
Fields == Leaves \cup Objects(Leaves, MaxNested)
Nested == Fields \cup Arrays(Fields, MaxNested)
PreviewPayloads ==
    Leaves \cup Objects(Nested, MaxEntries) \cup Arrays(Nested, MaxEntries)

\* key.toLowerCase()
toLowerCaseChar(c) ==
    CASE c = "P" -> "p"
      [] c = "F" -> "f"
      [] c = "I" -> "i"
      [] c = "L" -> "l"
      [] c = "E" -> "e"
      [] c = "J" -> "j"
      [] c = "G" -> "g"
      [] OTHER -> c
toLowerCase(str) == [i \in 1..Len(str) |-> toLowerCaseChar(str[i])]
\* str.includes(sub)
includes(str, sub) ==
    \E i \in 0..(Len(str) - Len(sub)) :
        SubSeq(str, i + 1, i + Len(sub)) = sub
\* /\.(png|jpg|jpeg|heic|gif|webp)$/i.test(entry)
ImageExtensions ==
    {<<"p", "n", "g">>, <<"j", "p", "g">>, <<"j", "p", "e", "g">>,
     <<"h", "e", "i", "c">>, <<"g", "i", "f">>, <<"w", "e", "b", "p">>}
test(entry) ==
    \E ext \in ImageExtensions :
        /\ Len(entry) > Len(ext)
        /\ toLowerCase(SubSeq(entry, Len(entry) - Len(ext), Len(entry)))
             = <<".">> \o ext
IsPreviewField(e) ==
    /\ e.entry.t = "string"
    /\ \/ includes(toLowerCase(e.key), <<"p", "a", "t", "h">>)
       \/ includes(toLowerCase(e.key), <<"f", "i", "l", "e">>)
    /\ test(e.entry.v)

\* the loop over Object.entries(record): it returns the entry that matches,
\* or else the queue with what the entries pushed
RECURSIVE forEntries(_, _)
forEntries(entries, queue) ==
    IF entries = <<>> THEN [found |-> FALSE, entry |-> NoPath, queue |-> queue]
    ELSE LET e == Head(entries)
             pushed == IF e.entry.t \in {"object", "array"}
                         THEN Append(queue, e.entry) ELSE queue
             spread == IF e.entry.t = "array"
                         THEN pushed \o e.entry.v ELSE pushed
         IN IF IsPreviewField(e)
              THEN [found |-> TRUE, entry |-> e.entry, queue |-> queue]
              ELSE forEntries(Tail(entries), spread)
\* the loop while (queue.length > 0)
RECURSIVE whileQueue(_)
whileQueue(queue) ==
    IF queue = <<>> THEN NoPath
    ELSE LET current == Head(queue)
             rest == Tail(queue)
         IN IF current.t \notin {"object", "array"} THEN whileQueue(rest)
            ELSE IF current.t = "array" THEN whileQueue(rest \o current.v)
            ELSE LET loop == forEntries(current.v, rest)
                 IN IF loop.found THEN loop.entry ELSE whileQueue(loop.queue)
findPreviewPath(value) == whileQueue(<<value>>)

InitPreviewPath ==
    /\ BridgeIdle
    /\ arg \in [fn : {"findPreviewPath"}, value : PreviewPayloads]
    /\ out = NoOut

CallFindPreviewPath ==
    /\ arg.fn = "findPreviewPath"
    /\ ~out.done
    /\ out' = Returned(findPreviewPath(arg.value))
    /\ UNCHANGED <<arg, bridge>>

SpecPreviewPath == InitPreviewPath /\ [][CallFindPreviewPath]_vars

\* ------------------------------------------- transport.close, call by call
\* the close of the transport of a registered session in the variant that
\* persists its endpoint, one call per step. arg.stack is the JavaScript
\* call stack, the running frame last; a frame is at "enter" when it starts
\* and at "resume" when the call it made has returned
Frame0(fn) == [fn |-> fn, pc |-> "enter"]
Top(stack) == stack[Len(stack)]
Pop(stack) == SubSeq(stack, 1, Len(stack) - 1)
\* the running frame calls fn
Push(stack, fn) ==
    Append([stack EXCEPT ![Len(stack)].pc = "resume"], Frame0(fn))
\* transport.close and Server.close are async functions: an exception in
\* their body rejects the promise they return, which their caller awaits or
\* catches; the handler set on transport.onclose is not, an exception goes
\* through it to the frame below
IsAsync(fn) == fn \in {"transport.close", "server.close"}
RECURSIVE Unwind(_)
Unwind(stack) ==
    IF stack = <<>> THEN <<>>
    ELSE IF IsAsync(Top(stack).fn) THEN Pop(stack)
    ELSE Unwind(Pop(stack))
\* a call when the stack is full throws a RangeError in the calling frame
Call(stack, fn, limit) ==
    IF Len(stack) < limit
      THEN [stack |-> Push(stack, fn), overflowed |-> FALSE]
      ELSE [stack |-> Unwind(stack), overflowed |-> TRUE]

\* the bridge serving k sessions, none of them closed
Serving(k) ==
    /\ variant = "xcode-types"
    /\ port = NumberOf(DefaultPort("xcode-types"))
    /\ pc = "serving"
    /\ diagnostic = ""
    /\ upstream = "connected"
    /\ upstreamTransport = "started"
    /\ connectAttempts = 1
    /\ upstreamErrors = FALSE
    /\ listener = "bound"
    /\ sessions = [id \in 1..k |-> [server |-> id, transport |-> id]]
    /\ transports = [o \in Objs |->
                       IF o <= k THEN [state |-> "open", sessionId |-> o]
                                 ELSE NewTransport]
    /\ servers = [o \in Objs |-> IF o <= k THEN "connected" ELSE "none"]
    /\ issued = [i \in 1..k |-> i]
    /\ removed = {}
    /\ inflight = 0
    /\ last = NoResponse
    /\ cleanups = [s \in Signals |->
                     [pc |-> "armed", cursor |-> NoObj, active |-> {}]]
    /\ log = <<>>
    /\ exited = FALSE
    /\ failures = {}
    /\ calls = [c \in CallIds |-> NoCall]

\* transport.close() of session `target` is called: by the transport itself
\* (DELETE, disconnect) or by the loop of cleanup, which calls the close of
\* the server next. The engine's stack has room for `limit` frames
InitClose ==
    /\ \E k \in 1..MaxSessions : Serving(k)
    /\ \E t \in DOMAIN sessions, by \in {"transport", "cleanup"},
          limit \in (MaxStack - 2)..MaxStack :
          arg = [fn |-> "transport.close", target |-> t, by |-> by,
                 limit |-> limit, stack |-> <<Frame0("transport.close")>>,
                 overflowed |-> FALSE]
    /\ out = NoOut

Closing(fn, at) ==
    /\ arg.fn = "transport.close"
    /\ ~out.done
    /\ arg.stack # <<>>
    /\ Top(arg.stack) = [fn |-> fn, pc |-> at]

CloseFrame ==
    UNCHANGED <<variant, port, pc, diagnostic, upstream, upstreamTransport,
                connectAttempts, upstreamErrors, listener, issued, inflight,
                last, cleanups, log, exited, failures, calls>>

Calls(fn) ==
    LET c == Call(arg.stack, fn, arg.limit) IN
    arg' = [arg EXCEPT !.stack = c.stack,
                       !.overflowed = @ \/ c.overflowed]
Returns == arg' = [arg EXCEPT !.stack = Pop(@)]

\* transport.close(): the streams are ended, then this.onclose?.()
EnterTransportClose ==
    /\ Closing("transport.close", "enter")
    /\ transports' = [transports EXCEPT ![arg.target].state = "closed"]
    /\ Calls("onclose")
    /\ UNCHANGED <<sessions, servers, removed, out>>
    /\ CloseFrame

\* the handler of transport.onclose: the entry is still in the Map, so
\* closed.server.close() is called; the Protocol's handler, chained behind
\* it, has not run yet
EnterOnclose ==
    /\ Closing("onclose", "enter")
    /\ LET id == transports[arg.target].sessionId IN
       IF id \in DOMAIN sessions
         THEN /\ Calls("server.close")
              /\ UNCHANGED servers
         ELSE /\ Returns
              /\ servers' = [servers EXCEPT ![arg.target] = "closed"]
    /\ UNCHANGED <<sessions, transports, removed, out>>
    /\ CloseFrame

\* closed.server.close() has returned its promise: sessions.delete, then
\* Protocol._onclose, which makes the server drop its transport
ResumeOnclose ==
    /\ Closing("onclose", "resume")
    /\ LET id == transports[arg.target].sessionId IN
       /\ sessions' = MapDelete(sessions, id)
       /\ removed' = removed \cup ({id} \cap DOMAIN sessions)
    /\ servers' = [servers EXCEPT ![arg.target] = "closed"]
    /\ Returns
    /\ UNCHANGED <<transports, out>>
    /\ CloseFrame

\* Server.close(): `await this._transport?.close()`
EnterServerClose ==
    /\ Closing("server.close", "enter")
    /\ IF servers[arg.target] = "connected"
         THEN Calls("transport.close")
         ELSE Returns
    /\ UNCHANGED <<sessions, transports, servers, removed, out>>
    /\ CloseFrame

\* the call a close made has returned: the close returns its promise
ResumeClose ==
    /\ \/ Closing("server.close", "resume")
       \/ Closing("transport.close", "resume")
    /\ Returns
    /\ UNCHANGED <<sessions, transports, servers, removed, out>>
    /\ CloseFrame

\* the outermost close has returned: cleanup goes on with
\* `await sessionServer.close()`, any other caller is done
CloseReturned ==
    /\ arg.fn = "transport.close"
    /\ ~out.done
    /\ arg.stack = <<>>
    /\ IF arg.by = "cleanup"
         THEN /\ arg' = [arg EXCEPT !.by = "cleanup, server",
                                    !.stack = <<Frame0("server.close")>>]
              /\ out' = out
         ELSE /\ out' = Returned("closed")
              /\ arg' = arg
    /\ UNCHANGED <<sessions, transports, servers, removed>>
    /\ CloseFrame

NextClose ==
    \/ EnterTransportClose
    \/ EnterOnclose
    \/ ResumeOnclose
    \/ EnterServerClose
    \/ ResumeClose
    \/ CloseReturned

SpecClose == InitClose /\ [][NextClose]_vars

\* ------------------------------------------------------------ specification
Next ==
    \/ ValidatePort
    \/ ConnectOk
    \/ ConnectFail
    \/ Listen
    \/ UpstreamError
    \/ \E m \in Methods, p \in Paths, h \in Headers : Request(m, p, h)
    \/ PostArrive
    \/ \E h \in Headers, b \in Bodies : PostHandle(h, b)
    \/ \E t \in Objs : TransportClose(t)
    \/ \E sig \in Signals : Signal(sig)
    \/ \E sig \in Signals : CleanupLoop(sig)
    \/ \E sig \in Signals : CleanupListener(sig)
    \/ \E sig \in Signals : CleanupUpstream(sig)
    \/ \E sig \in Signals : CleanupUpstreamTransport(sig)
    \/ \E sig \in Signals : Exit(sig)

Spec == Init /\ [][Next]_vars

\* startup alone, for every --port argument
NextStartup ==
    \/ ValidatePort
    \/ ConnectOk
    \/ ConnectFail
    \/ Listen

SpecStartup == InitAnyPort /\ [][NextStartup]_vars

\* the bridge with closes that may reject during shutdown. The event loop
\* runs every continuation of cleanup whose promise has settled, and a
\* request body that is being read ends or its connection times out
NextShutdown ==
    \/ ValidatePort
    \/ ConnectOk
    \/ ConnectFail
    \/ Listen
    \/ \E m \in Methods, p \in Paths, h \in Headers : Request(m, p, h)
    \/ PostArrive
    \/ \E h \in Headers, b \in Bodies : PostHandle(h, b)
    \/ \E t \in Objs : TransportClose(t)
    \/ \E sig \in Signals : Signal(sig)
    \/ \E sig \in Signals : CleanupLoop(sig)
    \/ \E sig \in Signals : CleanupListener(sig)
    \/ \E sig \in Signals : CleanupUpstream(sig)
    \/ \E sig \in Signals : CleanupUpstreamTransport(sig)
    \/ \E sig \in Signals : Exit(sig)
    \/ \E sig \in Signals : SignalRejected(sig)
    \/ \E sig \in Signals : CleanupLoopRejected(sig)
    \/ \E sig \in Signals : CleanupUpstreamRejected(sig)
    \/ \E sig \in Signals : CleanupUpstreamTransportRejected(sig)

CleanupResumes(sig) ==
    \/ CleanupLoop(sig) \/ CleanupLoopRejected(sig)
    \/ CleanupListener(sig)
    \/ CleanupUpstream(sig) \/ CleanupUpstreamRejected(sig)
    \/ CleanupUpstreamTransport(sig) \/ CleanupUpstreamTransportRejected(sig)
    \/ Exit(sig)

\* the bridge and the requests its sessions send to the backend, up to the
\* termination signal
NextBackend ==
    \/ ValidatePort
    \/ ConnectOk
    \/ ConnectFail
    \/ Listen
    \/ PostArrive
    \/ \E h \in Headers, b \in Bodies : PostHandle(h, b)
    \/ \E t \in Objs : TransportClose(t)
    \/ \E t \in Objs, m \in ToolMethods, p \in Params :
          SessionRequest(t, m, p)
    \/ \E id \in CallIds, res \in Results : BackendResult(id, res)
    \/ \E id \in CallIds : BackendError(id)

SpecBackend == Init /\ [][NextBackend]_vars

\* the bridge while it serves: the sessions, their requests to the backend
\* and every request of the listener
NextSessions ==
    \/ NextBackend
    \/ \E m \in Methods, p \in Paths, h \in Headers : Request(m, p, h)

SpecSessions == Init /\ [][NextSessions]_vars

\* the sessions and their requests to the backend, with the errors the
\* backend channel reports
NextChannel ==
    \/ NextBackend
    \/ UpstreamError

SpecChannel == Init /\ [][NextChannel]_vars

SpecShutdown ==
    /\ Init
    /\ [][NextShutdown]_vars
    /\ \A sig \in Signals : WF_vars(CleanupResumes(sig))
    /\ WF_vars(\E h \in Headers, b \in Bodies : PostHandle(h, b))

\* ------------------------------------------------------------------ claims
NoDup(q) == \A i, j \in 1..Len(q) : i # j => q[i] # q[j]
IsPrefix(p, q) == Len(p) <= Len(q) /\ \A i \in 1..Len(p) : p[i] = q[i]
OnEndpoint(ms) == last.path = EndpointPath /\ last.method \in ms
Parsed == ~parseJsonBody(last.body).threw

\* C1: every session id issued is distinct from every id issued earlier, and
\* an id that was removed from the registry is never again one of its keys
C1_IdsUniqueNeverReused ==
    /\ NoDup(issued)
    /\ DOMAIN sessions \subseteq Range(issued)
    /\ removed \cap DOMAIN sessions = {}
C1_Witness ==
    Len(issued) = 2 /\ issued[1] \in removed /\ issued[2] \in DOMAIN sessions

\* C2 as stated: a POST, GET or DELETE on the endpoint path that carries the
\* id of a closed session is answered 400 and is not forwarded
C2_ClosedIdAnswered400 ==
    (OnEndpoint({"POST", "GET", "DELETE"}) /\ last.closed)
        => last.status = BadRequest /\ last.to = NoObj
\* C2 as amended: such a request is never forwarded; it is answered 400,
\* except a POST whose body is not valid JSON, which is answered 500
C2_ClosedIdNeverRouted ==
    (OnEndpoint({"POST", "GET", "DELETE"}) /\ last.closed)
        => /\ last.to = NoObj
           /\ last.created = NoObj
           /\ last.status =
                IF last.method = "POST" /\ ~Parsed THEN InternalError
                                                   ELSE BadRequest
C2_Witness ==
    /\ OnEndpoint({"POST"}) /\ last.closed /\ last.body = "initialize"
    /\ last.status = BadRequest

\* the pair that the handshake of session `id` created: the transport that
\* took the id and the server connected to it
PairOf(id) ==
    LET o == CHOOSE o \in Objs : transports[o].sessionId = id
    IN [server |-> o, transport |-> o]
EntriesAreCreatedPairs ==
    \A id \in DOMAIN sessions :
        /\ \E o \in Objs : transports[o].sessionId = id
        /\ sessions[id] = PairOf(id)
\* C3 as stated: the registry maps an Active id to the pair its handshake
\* created, and every POST carrying that id is forwarded to that transport
C3_EveryPostForwarded ==
    /\ EntriesAreCreatedPairs
    /\ (OnEndpoint({"POST"}) /\ last.active)
          => last.to \in Objs /\ transports[last.to].sessionId = last.header
\* C3 as amended: the same for every POST whose body is empty or valid
\* JSON; a POST whose body is not valid JSON is forwarded to no transport
C3_ParsedPostForwarded ==
    /\ EntriesAreCreatedPairs
    /\ (OnEndpoint({"POST"}) /\ last.active /\ Parsed)
          => last.to \in Objs /\ transports[last.to].sessionId = last.header
    /\ (OnEndpoint({"POST"}) /\ last.active /\ ~Parsed) => last.to = NoObj
    /\ (OnEndpoint({"POST"}) /\ last.to # NoObj /\ last.created = NoObj)
          => transports[last.to].sessionId = last.header
C3_Witness ==
    /\ OnEndpoint({"POST"}) /\ last.active /\ last.body = "tools/list"
    /\ last.to = 2 /\ Cardinality(DOMAIN sessions) = 2

\* C4 as stated: a POST that neither carries an Active id nor is (no session
\* header and an initialization body) yields 400 with the envelope of code
\* -32000, creates no session and leaves the registry unchanged
RejectedPost ==
    /\ last.status = BadRequest
    /\ last.kind = "envelope"
    /\ last.code = MissingSessionCode
    /\ last.to = NoObj
    /\ last.created = NoObj
    /\ ~last.changed
C4_OtherPostAnswered400 ==
    (/\ OnEndpoint({"POST"})
     /\ ~last.active
     /\ ~(last.header = Absent /\ last.body = "initialize"))
        => RejectedPost
\* C4 as amended: the same for a POST whose body is empty or valid JSON,
\* where a session header that is present but empty counts as no header
C4_OtherParsedPostAnswered400 ==
    (/\ OnEndpoint({"POST"})
     /\ Parsed
     /\ ~last.active
     /\ ~(last.header \in {Absent, Empty} /\ last.body = "initialize"))
        => RejectedPost
C4_Witness ==
    /\ OnEndpoint({"POST"}) /\ last.closed /\ last.body = "tools/list"
    /\ RejectedPost /\ DOMAIN sessions # {}

\* C5: a GET or DELETE on the endpoint path is forwarded if and only if its
\* header names a session that is Active when it is routed, and then to that
\* session's transport; otherwise it is answered 400, the registry unchanged
C5_GetDeleteRouting ==
    OnEndpoint({"GET", "DELETE"})
        => /\ last.to # NoObj <=> last.active
           /\ last.active => transports[last.to].sessionId = last.header
           /\ ~last.active => last.status = BadRequest /\ ~last.changed
           /\ last.created = NoObj
C5_Witness ==
    /\ OnEndpoint({"GET"}) /\ last.active /\ last.to = 2
    /\ Cardinality(DOMAIN sessions) = 2

C7_HealthAlwaysOk ==
    [][(last' # last /\ last'.path = "/health")
          => /\ last'.status = 200
             /\ last'.kind = "health"
             /\ last'.ok
             /\ last'.endpoint = EndpointUrl(port)
             /\ UNCHANGED <<sessions, transports, servers, removed, upstream,
                            upstreamTransport, connectAttempts>>]_vars
C7_Witness ==
    /\ last.path = "/health" /\ last.errored /\ last.ok /\ last.status = 200
    /\ DOMAIN sessions # {} /\ removed # {}

\* C8: a port that is not an integer in [1, 65535] makes startMcpBridge fail
\* before the backend is launched and before a listener is bound; every
\* integer port in [1, 65535] passes the check
IntegerInRange(n) ==
    /\ ~n.nan
    /\ n.tenths % 10 = 0
    /\ 10 * MinPort <= n.tenths
    /\ n.tenths <= 10 * MaxPort
C8_PortCheckedFirst ==
    /\ ~IntegerInRange(port)
          => /\ pc \in {"start", "failed"}
             /\ pc = "failed" => diagnostic = "Invalid port"
             /\ upstream = "new" /\ upstreamTransport = "new"
             /\ connectAttempts = 0
             /\ listener = "unbound"
    /\ IntegerInRange(port) => diagnostic # "Invalid port"
C8_Witness ==
    pc = "failed" /\ port = NaN /\ diagnostic = "Invalid port"

\* C9: startup calls upstream.connect once, binds the listener only after the
\* connection succeeded, and when the connection fails it aborts with the
\* diagnostic that enumerates the likely causes, never binding a listener,
\* in both variants
ConnectFailed == connectAttempts > 0 /\ diagnostic = ConnectDiagnostic(variant)
C9_ConnectOnceOrDiagnose ==
    /\ connectAttempts <= 1
    /\ listener # "unbound" => connectAttempts = 1 /\ ~ConnectFailed
    /\ ConnectFailed
          => /\ diagnostic = "Unable to connect: checklist"
             /\ pc = "failed"
             /\ listener = "unbound"

\* C10: shutdown closes the server and the transport of every session that
\* was registered at the signal, then clears the registry, then closes the
\* listener, then the backend connector, then the subprocess channel, and
\* only then exits
ShutdownOrder == <<"clear", "listener", "upstream", "upstreamTransport", "exit">>
SessionsClosed(sig) ==
    \A o \in cleanups[sig].active :
        transports[o].state = "closed" /\ servers[o] = "closed"
Signalled == \E sig \in Signals : cleanups[sig].pc # "armed"
EntriesAttempted(sig) ==
    \A o \in cleanups[sig].active :
        \/ transports[o].state = "closed" /\ servers[o] = "closed"
        \/ o \in failures
LaterClosesAttempted ==
    /\ \A sig \in Signals :
          cleanups[sig].pc \notin {"armed", "loop"} => EntriesAttempted(sig)
    /\ exited => log = ShutdownOrder
FrontDoorError ==
    /\ last.kind \notin {"", "transport"}
    /\ last.status \in {BadRequest, NotFound, MethodNotAllowed, InternalError}
\* C12 as stated: every error response of the handler (400, 404, 405, 500)
\* carries a JSON-RPC error envelope, and a request with a missing or
\* unknown session is answered 400 with the envelope of code -32000 for GET
\* and DELETE as well as for POST
C12_EveryErrorIsEnvelope ==
    FrontDoorError
        => /\ last.kind = "envelope"
           /\ last.status = BadRequest => last.code = MissingSessionCode
\* C12 as amended: the envelope is carried by the 400 of a POST (code
\* -32000) and by every 500 (code -32603); the 400 of a GET or DELETE with a
\* missing or unknown session, the 404 and the 405 carry plain text
C12_EnvelopeOnPostAndInternal ==
    FrontDoorError
        => /\ last.kind = "envelope"
                <=> \/ last.status = InternalError
                    \/ last.status = BadRequest /\ last.method = "POST"
           /\ last.kind # "envelope" => last.kind = "text" /\ last.code = 0
           /\ last.kind = "envelope"
                => last.code = IF last.status = InternalError
                                 THEN InternalErrorCode
                                 ELSE MissingSessionCode
           /\ (OnEndpoint({"GET", "DELETE"}) /\ ~last.active)
                => last.status = BadRequest /\ last.kind = "text"
C12_Witness ==
    /\ OnEndpoint({"DELETE"}) /\ last.closed
    /\ last.status = BadRequest /\ last.kind = "text"
    /\ DOMAIN sessions # {}

\* C13: a request whose path is neither /health nor the endpoint path is
\* answered 404 whatever its method; a request on the endpoint path whose
\* method is not POST, GET or DELETE is answered 405; neither is forwarded
\* to a transport, creates a session or changes the registry
Answered == last.method # ""
Untouched == last.to = NoObj /\ last.created = NoObj /\ ~last.changed
C13_StatusByPathAndMethod ==
    /\ (Answered /\ last.path \notin {"/health", EndpointPath})
          => last.status = NotFound /\ Untouched
    /\ (Answered /\ OnEndpoint(Methods \ {"POST", "GET", "DELETE"}))
          => last.status = MethodNotAllowed /\ Untouched
    /\ last.status = NotFound => last.path \notin {"/health", EndpointPath}
    /\ last.status = MethodNotAllowed
          => OnEndpoint(Methods \ {"POST", "GET", "DELETE"})
C13_Witness ==
    /\ OnEndpoint({"PUT"}) /\ last.active
    /\ last.status = MethodNotAllowed
    /\ Cardinality(DOMAIN sessions) = 2

\* C14: every request is answered by exactly one response; when handling
\* throws (a body that is not valid JSON, a transport that fails) the 500
\* with the envelope of code -32603 is written if and only if no response
\* had been started, and the failure changes neither the registry nor
\* anything else but the request itself
InternalErrorEnvelope(r) ==
    /\ r.status = InternalError
    /\ r.kind = "envelope"
    /\ r.code = InternalErrorCode
C14_ExactlyOneResponse ==
    [][last'.method # ""
          => /\ last'.responses = 1
             /\ InternalErrorEnvelope(last') => last'.threw
             /\ last'.threw
                  => /\ InternalErrorEnvelope(last') <=> ~last'.headersSent
                     /\ ~last'.headersSent
                          => DOMAIN sessions' = DOMAIN sessions
                     /\ inflight' \in {inflight, inflight - 1}
                     /\ UNCHANGED <<pc, listener, upstream, upstreamTransport,
                                    cleanups, exited>>]_vars
C14_Witness ==
    /\ OnEndpoint({"POST"}) /\ last.active /\ last.body = "tools/list"
    /\ last.threw /\ last.headersSent /\ last.kind = "transport"
    /\ last.responses = 1

\* C15: for every tools/list or tools/call request of a session its server
\* makes exactly one call on the shared backend Client, of the same method
\* and with the same parameters, and returns to that session what the
\* backend answered, unchanged
OneCallSameParams(c) == c.sent = <<c.request>>
C15_OneCallReturnedUnchanged ==
    /\ \A id \in CallIds :
          calls[id].state = "pending" => OneCallSameParams(calls[id])
    /\ last.kind \in {"result", "error"} => OneCallSameParams(last.call)
    /\ (last.kind = "result" /\ last.to # NoObj)
          => /\ last.to = last.call.session
             /\ last.returned = last.result
C15_Witness ==
    /\ last.kind = "result" /\ last.to = 2
    /\ last.call.request = [method |-> "tools/list", params |-> "params"]
    /\ last.result = "other result" /\ last.returned = "other result"
    /\ \E id \in CallIds :
          calls[id].state = "pending" /\ calls[id].session = 1

\* C16: a backend call that fails is reported to the session that sent the
\* request and to no other; the other pending calls, the registry, the
\* sessions, the listener and the backend connection stay as they were and
\* the process keeps running
C16_BackendErrorIsolated ==
    [][last'.kind = "error"
          => \E id \in CallIds :
                /\ calls[id].state = "pending"
                /\ last'.call = calls[id]
                /\ last'.to \in {calls[id].session, NoObj}
                /\ calls' = [calls EXCEPT ![id] = NoCall]
                /\ UNCHANGED <<sessions, transports, servers, removed,
                               listener, upstream, upstreamTransport, pc,
                               exited>>]_vars
C16_Witness ==
    /\ last.kind = "error" /\ last.to = 1
    /\ calls[2].state = "pending" /\ calls[2].session = 2
    /\ Cardinality(DOMAIN sessions) = 2 /\ pc = "serving"
    /\ upstream = "connected" /\ listener = "bound"

\* C17: unwrapResult returns the structured content when it is neither
\* undefined nor null, otherwise the JSON payload when it is not null,
\* otherwise the raw payload; a structured content that is present wins
\* whatever the JSON and raw payloads are
Present(x) == x # Undefined /\ x # Null
C17_UnwrapPreference ==
    (arg.fn = "unwrapResult" /\ out.done)
        => /\ ~out.threw
           /\ Present(arg.structured) => out.value = arg.structured
           /\ (~Present(arg.structured) /\ arg.json # Null)
                => out.value = arg.json
           /\ (~Present(arg.structured) /\ arg.json = Null)
                => out.value = arg.raw
C17_Witness ==
    /\ arg.fn = "unwrapResult" /\ out.done
    /\ arg.structured = [t |-> "number", v |-> "0"]
    /\ arg.json = [t |-> "object", v |-> "{ok: true}"]
    /\ arg.raw = [t |-> "string", v |-> "raw"]
    /\ out.value = arg.structured

\* C18: resolveTabIdentifier returns an explicit override without a backend
\* call; otherwise, in the command line with a config file, the stored
\* default tab; otherwise, with auto-discovery, the one identifier of a
\* windows listing that holds exactly one distinct identifier; with none or
\* more than one it fails with an error and chooses none
Discovered(listing) == {trim(m) : m \in Range(listing)} \ {""}
HasDefault(a) == a.cli = "xcode" /\ StrTruthy(a.defaultTabId)
C18_TabPriority ==
    (arg.fn = "resolveTabIdentifier" /\ out.done)
        => /\ StrTruthy(arg.tabOverride)
                => out = Resolved(arg.tabOverride, 0)
           /\ (~StrTruthy(arg.tabOverride) /\ HasDefault(arg))
                => out = Resolved(arg.defaultTabId, 0)
           /\ (~StrTruthy(arg.tabOverride) /\ ~HasDefault(arg))
                => /\ out.calls = IF CallsBackend(arg) THEN 1 ELSE 0
                   /\ ~arg.autoDiscover => out = Failed(NoTabFound, 0)
                   /\ (arg.autoDiscover /\ out.value # ListWindowsFailed)
                        => IF Cardinality(Discovered(arg.listing)) = 1
                             THEN /\ ~out.threw
                                  /\ Discovered(arg.listing) = {out.value}
                             ELSE out.threw /\ out.value = NoTabFound
C18_Witness ==
    /\ arg.fn = "resolveTabIdentifier" /\ out.done
    /\ arg.cli = "xcode" /\ arg.tabOverride = "" /\ arg.defaultTabId = ""
    /\ arg.listing = <<"tabA", " ", " tabA ">>
    /\ out = Resolved("tabA", 1)

\* C19: parseTestSpecifier, when the first '/' of the trimmed input is at
\* an index greater than 0, returns as targetName the trimmed text before
\* that '/' and as testIdentifier the whole trimmed input; when the trimmed
\* input has no '/' or starts with '/', it throws 'Invalid test specifier'
Blanks(n) == [i \in 1..n |-> " "]
\* the contiguous parts of s
Infixes(s) == {SubSeq(s, i, j) : i \in 1..(Len(s) + 1), j \in 0..Len(s)}
\* t is s without the blanks at its two ends
IsTrimOf(t, s) ==
    /\ t = <<>> \/ (t[1] # " " /\ t[Len(t)] # " ")
    /\ \E n, m \in 0..Len(s) : s = Blanks(n) \o t \o Blanks(m)
\* the 1-based positions of '/' in s
Slashes(s) == {i \in 1..Len(s) : s[i] = "/"}
C19_TestSpecifier ==
    (arg.fn = "parseTestSpecifier" /\ out.done)
        => \E v \in Infixes(arg.input) :
              /\ IsTrimOf(v, arg.input)
              /\ IF Slashes(v) = {} \/ 1 \in Slashes(v)
                   THEN out = Thrown(InvalidTestSpecifier)
                   ELSE \E i \in Slashes(v) :
                          /\ \A j \in Slashes(v) : i <= j
                          /\ ~out.threw
                          /\ out.value.testIdentifier = v
                          /\ IsTrimOf(out.value.targetName,
                                      SubSeq(v, 1, i - 1))
C19_Witness ==
    /\ arg.fn = "parseTestSpecifier" /\ out.done
    /\ arg.input = <<" ", "a", " ", "/", "b", " ">>
    /\ out = Returned([targetName |-> <<"a">>,
                       testIdentifier |-> <<"a", " ", "/", "b">>])

\* C20: renderLsTree returns null for a payload that is not an object or
\* has no items array, and the root label alone when no item is a string;
\* otherwise the root label and one line per distinct node of the tree of
\* path components, siblings in case-insensitive order of their names, the
\* last sibling with the angle connector and the others with the tee; the
\* first component is stripped iff every item starts with the base name of
\* the root label
Rendered == out.value
Lines == Rendered.lines
Depth(i) == Len(Lines[i].prefix)
WellFormed ==
    /\ Lines # <<>> => Depth(1) = 0
    /\ \A i \in 2..Len(Lines) : Depth(i) <= Depth(i - 1) + 1
\* the line of the ancestor of line i at depth d: the nearest one before it
AncestorAt(i, d) ==
    CHOOSE j \in 1..(i - 1) :
        /\ Depth(j) = d
        /\ \A k \in (j + 1)..(i - 1) : Depth(k) # d
PathOf(i) ==
    [d \in 1..(Depth(i) + 1) |->
        IF d = Depth(i) + 1 THEN Lines[i].name
                            ELSE Lines[AncestorAt(i, d - 1)].name]
Siblings(i, j) ==
    /\ i < j
    /\ Depth(i) = Depth(j)
    /\ \A k \in i..j : Depth(k) >= Depth(i)
LastSibling(i) == ~\E j \in 1..Len(Lines) : Siblings(i, j)
\* the order of names that ignores case: letters compare by their place in
\* the alphabet
Alphabet == <<"a", "b", "p", "t">>
LowerCase(c) ==
    CASE c = "B" -> "b"
      [] c = "P" -> "p"
      [] OTHER -> c
Place(c) == CHOOSE n \in 1..Len(Alphabet) : Alphabet[n] = LowerCase(c)
IgnoringCaseBefore(a, b) ==
    \E n \in 1..Len(b) :
        /\ \A k \in 1..(n - 1) : k <= Len(a) /\ Place(a[k]) = Place(b[k])
        /\ n > Len(a) \/ Place(a[n]) < Place(b[n])
StringItems == {x \in Range(arg.value.items) : x # NotAString}
RootName == basename(stripTrailingSlashes(arg.rootLabel))
\* every item starts with the base name of the root label
EveryItemUnderRoot ==
    \A x \in StringItems : Parts(x) # <<>> /\ Parts(x)[1] = RootName
\* the root label has a base name and every item that has a path component
\* has that name as its first
EveryPathUnderRoot ==
    /\ RootName # <<>>
    /\ \A x \in StringItems : Parts(x) # <<>> => Parts(x)[1] = RootName
ExpectedNodes(strip) ==
    PrefixClosure({IF strip THEN Tail(Parts(x)) ELSE Parts(x) :
                      x \in {y \in StringItems : Parts(y) # <<>>}} \ {<<>>})
TreeShows(nodes) ==
    /\ ~Rendered.null
    /\ Rendered.root = arg.rootLabel
    /\ WellFormed
    /\ Len(Lines) = Cardinality(nodes)
    /\ {PathOf(i) : i \in 1..Len(Lines)} = nodes
    /\ \A i, j \in 1..Len(Lines) :
          Siblings(i, j) => IgnoringCaseBefore(Lines[i].name, Lines[j].name)
    /\ \A i \in 1..Len(Lines) :
          Lines[i].connector =
              IF LastSibling(i) THEN LastConnector ELSE TeeConnector
RendersAs(strip) ==
    (arg.fn = "renderLsTree" /\ out.done)
        => /\ ~out.threw
           /\ arg.value.t # "items" => Rendered = NullTree
           /\ (arg.value.t = "items" /\ StringItems = {})
                => Rendered = Tree(arg.rootLabel, <<>>)
           /\ (arg.value.t = "items" /\ StringItems # {})
                => TreeShows(ExpectedNodes(strip))
\* C20 as stated
C20_StrippedIfEveryItem == RendersAs(EveryItemUnderRoot)
\* C20 as amended: the first component is stripped iff the root label has a
\* non-empty base name and every item that has at least one path component
\* has it as its first; items without a component ('' or slashes) and items
\* that are not strings do not count
C20_StrippedIfEveryPath == RendersAs(EveryPathUnderRoot)
C20_Witness ==
    /\ arg.fn = "renderLsTree" /\ out.done
    /\ arg.rootLabel = <<"/", "t", "/", "P">>
    /\ arg.value.items = <<<<"P", "/", "a", "/", "B">>, <<>>, <<"P", "/", "B">>>>
    /\ Lines = <<Line(<<>>, TeeConnector, <<"a">>),
                 Line(<<"|   ">>, LastConnector, <<"B">>),
                 Line(<<>>, LastConnector, <<"B">>)>>

\* C21: findPreviewPath searches the payload breadth-first, arrays and
\* objects alike being one level of nesting, and returns the first string
\* field whose key contains 'path' or 'file' in any case and whose value
\* ends with an image extension; it returns undefined when there is none
Children(node) ==
    CASE node.t = "array" -> node.v
      [] node.t = "object" -> [i \in 1..Len(node.v) |-> node.v[i].entry]
      [] OTHER -> <<>>
RECURSIVE Flatten(_)
Flatten(seqs) == IF seqs = <<>> THEN <<>> ELSE Head(seqs) \o Flatten(Tail(seqs))
\* the fields of the objects of one level, in the order of the level
FieldsOf(level) ==
    Flatten([i \in 1..Len(level) |->
                IF level[i].t = "object" THEN level[i].v ELSE <<>>])
RECURSIVE BreadthFirst(_)
BreadthFirst(level) ==
    IF level = <<>> THEN NoPath
    ELSE LET matches == SelectSeq(FieldsOf(level), IsPreviewField)
         IN IF matches # <<>> THEN Head(matches).entry
            ELSE BreadthFirst(Flatten([i \in 1..Len(level) |->
                                          Children(level[i])]))
C21_FirstBreadthFirst ==
    (arg.fn = "findPreviewPath" /\ out.done)
        => out = Returned(BreadthFirst(<<arg.value>>))

\* C22: a session enters the Map only through onsessioninitialized: every
\* key of the Map is the session id its entry's transport confirmed and the
\* entry's server is the one connected to that transport; a handshake that
\* fails before the transport confirms an id leaves the Map as it was, and
\* a handshake adds at most one entry
EntryConfirmed(reg, trs, id) ==
    /\ trs[reg[id].transport].sessionId = id
    /\ reg[id].server = reg[id].transport
Handshake == last'.created # NoObj
C22_RegisteredOnConfirmation ==
    [][/\ \A id \in DOMAIN sessions' : EntryConfirmed(sessions', transports', id)
       /\ DOMAIN sessions' \ DOMAIN sessions # {}
            => /\ Handshake
               /\ DOMAIN sessions' \ DOMAIN sessions
                    = {transports'[last'.created].sessionId}
       /\ (Handshake /\ transports'[last'.created].sessionId = Absent)
            => sessions' = sessions]_vars
C22_Witness ==
    /\ last.created = 2
    /\ last.changed
    /\ transports[1].state = "open"
    /\ transports[1].sessionId = Absent
    /\ DOMAIN sessions = {1}
    /\ EntryConfirmed(sessions, transports, 1)

\* C23: whatever signals are delivered, the body of cleanup runs at most
\* once and two runs of cleanup never overlap (so that each session, the
\* listener and the backend are closed at most once)
Started(sig) == cleanups[sig].pc # "armed"
Running(sig) == cleanups[sig].pc \notin {"armed", "done"}
C23_CleanupRunsOnce ==
    /\ Cardinality({sig \in Signals : Started(sig)}) <= 1
    /\ \A a, b \in Signals : (Running(a) /\ Running(b)) => a = b

\* C24: during shutdown the backend is closed only once the Map has been
\* drained: while the backend Client is closed after a signal, no session
\* is registered, no registered transport is open and no close of a
\* session is in progress
ClosingSessions == \E sig \in Signals : cleanups[sig].pc = "loop"
C24_BackendClosedAfterDrain ==
    (upstream = "closed" /\ \E sig \in Signals : Started(sig))
        => /\ sessions = <<>>
           /\ ~ClosingSessions

\* C25: the close of one session, by DELETE, by a disconnect or by the
\* transport itself, changes that session only: the backend connection
\* stays as it was, every other session keeps its entry of the Map, its
\* transport, its server and its pending requests, and the listener goes on
SessionCloses(t) ==
    /\ transports[t].state = "open"
    /\ transports'[t].state = "closed"
    /\ cleanups' = cleanups
C25_CloseChangesOneSession ==
    [][\A t \in Objs :
          SessionCloses(t)
            => /\ UNCHANGED <<upstream, upstreamTransport, listener, pc,
                              exited, inflight>>
               /\ \A o \in Objs \ {t} :
                     /\ transports'[o] = transports[o]
                     /\ servers'[o] = servers[o]
               /\ DOMAIN sessions' \subseteq DOMAIN sessions
               /\ \A id \in DOMAIN sessions :
                     sessions[id].transport # t
                       => id \in DOMAIN sessions' /\ sessions'[id] = sessions[id]
               /\ \A c \in CallIds :
                     calls[c].session # t => calls'[c] = calls[c]]_vars
C25_Witness ==
    /\ last.method = "DELETE" /\ last.kind = "transport"
    /\ transports[last.to].state = "closed"
    /\ \E id \in DOMAIN sessions :
          /\ sessions[id].transport # last.to
          /\ transports[sessions[id].transport].state = "open"
          /\ \E c \in CallIds :
                calls[c].state = "pending"
                  /\ calls[c].session = sessions[id].transport
    /\ upstream = "connected" /\ listener = "bound"

\* C26: an error the backend channel reports asynchronously is only
\* logged: the step leaves the backend connection, the Map, the listener
\* and the pending requests as they were and starts neither a teardown nor
\* a new connect, and afterwards a session's tools/list and tools/call are
\* still forwarded on the same connection
LiveSession(t) ==
    /\ transports[t].state = "open"
    /\ transports[t].sessionId \in DOMAIN sessions
    /\ servers[t] = "connected"
C26_ErrorOnlyLogged ==
    /\ [][upstreamErrors' # upstreamErrors
            => UNCHANGED <<upstream, upstreamTransport, connectAttempts,
                           sessions, transports, servers, removed, listener,
                           inflight, calls, pc, cleanups, exited>>]_vars
    /\ [](upstreamErrors
            => \A t \in Objs, m \in ToolMethods :
                  (LiveSession(t) /\ FreeCalls # {})
                     => ENABLED SessionRequest(t, m, NoParams))
C26_Witness ==
    /\ upstreamErrors
    /\ upstream = "connected" /\ connectAttempts = 1
    /\ last.kind = "result" /\ last.to # NoObj
    /\ \E c \in CallIds : calls[c].state = "pending"
    /\ listener = "bound"

\* C27: with requests of several sessions pending on the one backend
\* Client, whatever the order of the backend's answers, an answer settles
\* the one request it answers and no other, so that no request is answered
\* twice, and it is delivered to the session that sent that request and to
\* no other session (to none when that session has closed meanwhile)
Settles(id) ==
    /\ calls[id].state = "pending"
    /\ last'.call = calls[id]
    /\ calls' = [calls EXCEPT ![id] = NoCall]
    /\ last'.to = IF servers[calls[id].session] = "connected"
                    THEN calls[id].session ELSE NoObj
C27_AnswerToItsSession ==
    [][/\ last'.kind \in {"result", "error"} => \E id \in CallIds : Settles(id)
       /\ \A id \in CallIds :
             (calls[id].state = "pending" /\ calls'[id] # calls[id])
                => last'.kind \in {"result", "error"} /\ Settles(id)]_vars
C27_Witness ==
    /\ Cardinality(DOMAIN sessions) = 2
    /\ calls[1].state = "pending" /\ calls[1].session = 1
    /\ last.kind = "result" /\ last.call.session = 2 /\ last.to = 2
    /\ servers[1] = "connected"

\* C28: the bridge neither times out nor cancels a backend call: a pending
\* call changes only when the backend Client settles it, and while a call
\* is pending the listener still answers /health, takes and handles the
\* POST of a new session, and every live session can still be closed and
\* can still send requests, the session of the pending call included
SomeCallPending == \E c \in CallIds : calls[c].state = "pending"
SomeCallFree == \E c \in CallIds : calls[c].state = "free"
C28_PendingCallBlocksNothing ==
    /\ [][\A c \in CallIds :
             (calls[c].state = "pending" /\ calls'[c] # calls[c])
                => /\ last'.kind \in {"result", "error"}
                   /\ last'.call = calls[c]]_vars
    /\ [](SomeCallPending
            => /\ ENABLED Request("GET", "/health", Absent)
               /\ inflight < MaxInflight => ENABLED PostArrive
               /\ (inflight > 0 /\ Unused # {})
                    => ENABLED PostHandle(Absent, "initialize")
               /\ \A t \in Objs :
                    LiveSession(t)
                      => /\ ENABLED TransportClose(t)
                         /\ ENABLED Request("DELETE", EndpointPath,
                                            transports[t].sessionId)
                         /\ inflight > 0
                              => ENABLED PostHandle(transports[t].sessionId,
                                                    "tools/list")
                         /\ SomeCallFree
                              => \A m \in ToolMethods :
                                    ENABLED SessionRequest(t, m, NoParams))
C28_Witness ==
    /\ calls[1].state = "pending" /\ calls[1].session = 1
    /\ last.created = 2 /\ last.status = 200 /\ last.changed
    /\ Cardinality(DOMAIN sessions) = 2
    /\ inflight = 0

\* C29: when the process exits after a signal the Map is empty and no
\* transport of a session is open, also for a session whose initialize
\* request was being read when cleanup cleared the Map
C29_NothingLeftAtExit ==
    exited
      => /\ sessions = <<>>
         /\ \A t \in Objs :
               transports[t].sessionId # Absent
                 => transports[t].state # "open"

\* C30: in the variant that persists its endpoint the close of the
\* transport of a registered session terminates: the handler of onclose is
\* re-entered only finitely often, without the call stack running out, and
\* once the close has returned the id is not in the Map and the server is
\* closed; the same when cleanup closes the transport and then the server
C30_CloseHandlerTerminates ==
    arg.fn = "transport.close"
      => /\ ~arg.overflowed
         /\ out.done
              => /\ transports[arg.target].sessionId \notin DOMAIN sessions
                 /\ servers[arg.target] = "closed"

====
